---- MODULE Spec2Model ----
(***************************************************************************)
(* Model of config/settings.py: the Settings class (typed fields bound     *)
(* from the environment and its computed properties) and the module-level  *)
(* accessor get_settings() with its global _settings_instance.             *)
(*                                                                         *)
(* Encodings.                                                              *)
(*   Optional[T]   a sequence of length <= 1: None is <<>>, a value v is   *)
(*                 <<v>>.                                                  *)
(*   str           where the code looks at characters (ADMIN_IDS_STR,      *)
(*                 YOOKASSA_WEBHOOK_BASE_URL, raw integers) a string is a   *)
(*                 sequence of one-character strings; the element "sup2"   *)
(*                 stands for U+00B2 SUPERSCRIPT TWO.  Elsewhere it is a    *)
(*                 TLA+ string.                                            *)
(*   float         a record: kind "fin" with value num / 2^dexp, or one of *)
(*                 the kinds "nan", "inf", "-inf".                         *)
(*   big int       a byte count hi * 1024^3 + lo (0 <= lo < 1024^3).       *)
(***************************************************************************)
EXTENDS Integers, Sequences, FiniteSets, TLC

VARIABLES
    env,                \* the process environment / .env file (raw values)
    settings_instance,  \* the global _settings_instance
    pc,                 \* per thread: where it is inside get_settings()
    result,             \* per thread: outcome of its last completed call
    emitted,            \* per thread: log records emitted by its current/last call
    initialised,        \* per thread: its current/last call constructed Settings
    ncalls,             \* number of get_settings() calls begun
    nextId,             \* number of Settings objects allocated so far
    sourceReads,        \* number of times Settings() read the sources
    returned,           \* identities of all instances handed to callers
    failed,             \* some call has raised SystemExit
    afterFailure,       \* per thread: its current/last call began after such a raise
    self,               \* a Settings object whose computed properties are read
    ret                 \* the last computed-property access on self

registryVars == <<env, settings_instance, pc, result, emitted, initialised,
                  ncalls, nextId, sourceReads, returned, failed, afterFailure>>
derivedVars == <<self, ret>>
vars == <<env, settings_instance, pc, result, emitted, initialised,
          ncalls, nextId, sourceReads, returned, failed, afterFailure,
          self, ret>>

----------------------------------------------------------------------------
(* Bounds *)

NThreads == 2
MaxCalls == 3
MaxLen == 3
MaxUrlLen == 3

Threads == 1..NThreads

----------------------------------------------------------------------------
(* Optional values and Python truthiness *)

None == <<>>
Some(v) == <<v>>

\* `not x` for an Optional[str] held as a TLA+ string
FalsyStr(opt) == opt = None \/ opt[1] = ""

----------------------------------------------------------------------------
(* Characters and the str methods the code calls *)

DecimalDigits == {"0", "1", "2", "3", "4", "5", "6", "7", "8", "9"}
\* str.isdigit() is also true of digits that int() rejects, such as U+00B2
SuperscriptDigits == {"sup2"}
Whitespace == {" "}

DigitValue(c) ==
    CASE c = "0" -> 0 [] c = "1" -> 1 [] c = "2" -> 2 [] c = "3" -> 3
      [] c = "4" -> 4 [] c = "5" -> 5 [] c = "6" -> 6 [] c = "7" -> 7
      [] c = "8" -> 8 [] c = "9" -> 9

\* str.split(sep): the maximal pieces between occurrences of sep
RECURSIVE SplitFrom(_, _, _)
SplitFrom(s, sep, cur) ==
    IF s = <<>> THEN <<cur>>
    ELSE IF Head(s) = sep THEN <<cur>> \o SplitFrom(Tail(s), sep, <<>>)
    ELSE SplitFrom(Tail(s), sep, Append(cur, Head(s)))

Split(s, sep) == SplitFrom(s, sep, <<>>)

RECURSIVE LStrip(_)
LStrip(s) ==
    IF s # <<>> /\ Head(s) \in Whitespace THEN LStrip(Tail(s)) ELSE s

RECURSIVE RStripChars(_, _)
RStripChars(s, chars) ==
    IF s # <<>> /\ s[Len(s)] \in chars
    THEN RStripChars(SubSeq(s, 1, Len(s) - 1), chars)
    ELSE s

\* str.strip()
Strip(s) == RStripChars(LStrip(s), Whitespace)

\* str.isdigit()
IsDigit(s) ==
    /\ s # <<>>
    /\ \A i \in 1..Len(s) : s[i] \in DecimalDigits \cup SuperscriptDigits

RECURSIVE DecimalValue(_, _)
DecimalValue(s, acc) ==
    IF s = <<>> THEN acc
    ELSE DecimalValue(Tail(s), acc * 10 + DigitValue(Head(s)))

\* int(s) on a string that passed isdigit(): the value, or ValueError
IntOf(s) ==
    IF \A i \in 1..Len(s) : s[i] \in DecimalDigits
    THEN [ok |-> TRUE, value |-> DecimalValue(s, 0)]
    ELSE [ok |-> FALSE, value |-> 0]

----------------------------------------------------------------------------
(* float and int arithmetic used by trial_traffic_limit_bytes *)

GiB == 1024 * 1024 * 1024

Fin(n, d) == [kind |-> "fin", num |-> n, dexp |-> d]
NaN == [kind |-> "nan", num |-> 0, dexp |-> 0]
PosInf == [kind |-> "inf", num |-> 0, dexp |-> 0]
NegInf == [kind |-> "-inf", num |-> 0, dexp |-> 0]

BigInt(h, l) == [hi |-> h, lo |-> l]

\* f <= 0 on floats: every comparison with NaN is False
FloatLeqZero(f) ==
    CASE f.kind = "nan" -> FALSE
      [] f.kind = "inf" -> FALSE
      [] f.kind = "-inf" -> TRUE
      [] OTHER -> f.num <= 0

\* int(f * 1024**3) for a float f > 0 or NaN: the product is exact (a power
\* of two), int() truncates, and refuses NaN and infinity
IntOfScaled(f) ==
    CASE f.kind = "nan" ->
            [value |-> BigInt(0, 0), raised |-> "ValueError"]
      [] f.kind \in {"inf", "-inf"} ->
            [value |-> BigInt(0, 0), raised |-> "OverflowError"]
      [] OTHER ->
            IF f.dexp <= 30
            THEN [value |-> BigInt(f.num \div (2 ^ f.dexp),
                                   (f.num % (2 ^ f.dexp)) * (GiB \div (2 ^ f.dexp))),
                  raised |-> "none"]
            ELSE LET q == f.num \div (2 ^ (f.dexp - 30))
                 IN  [value |-> BigInt(q \div GiB, q % GiB), raised |-> "none"]

----------------------------------------------------------------------------
(* class Settings: computed properties.  Each takes the object and gives    *)
(* the returned value, what the call raised, and the log records it wrote. *)

RECURSIVE IntsOf(_)
\* [int(x.strip()) for x in elems if x.strip().isdigit()]
IntsOf(elems) ==
    IF elems = <<>> THEN [ok |-> TRUE, value |-> <<>>]
    ELSE LET e == Strip(Head(elems))
             rest == IntsOf(Tail(elems))
         IN  IF ~IsDigit(e) THEN rest
             ELSE IF ~IntOf(e).ok THEN [ok |-> FALSE, value |-> <<>>]
             ELSE IF ~rest.ok THEN rest
             ELSE [ok |-> TRUE, value |-> <<IntOf(e).value>> \o rest.value]

ADMIN_IDS(obj) ==
    IF obj.ADMIN_IDS_STR # <<>>
    THEN LET r == IntsOf(Split(obj.ADMIN_IDS_STR, ","))
         IN  IF r.ok
             THEN [value |-> r.value, raised |-> "none", logged |-> <<>>]
             ELSE [value |-> <<>>, raised |-> "none",
                   logged |-> <<"error: Invalid ADMIN_IDS_STR format">>]
    ELSE [value |-> <<>>, raised |-> "none", logged |-> <<>>]

PRIMARY_ADMIN_ID(obj) ==
    LET ids == ADMIN_IDS(obj)
    IN  [value |-> IF ids.value # <<>> THEN Some(ids.value[1]) ELSE None,
         raised |-> "none", logged |-> ids.logged]

trial_traffic_limit_bytes(obj) ==
    IF obj.TRIAL_TRAFFIC_LIMIT_GB = None
       \/ FloatLeqZero(obj.TRIAL_TRAFFIC_LIMIT_GB[1])
    THEN [value |-> BigInt(0, 0), raised |-> "none", logged |-> <<>>]
    ELSE LET r == IntOfScaled(obj.TRIAL_TRAFFIC_LIMIT_GB[1])
         IN  [value |-> r.value, raised |-> r.raised, logged |-> <<>>]

yookassa_webhook_path ==
    <<"/", "w", "e", "b", "h", "o", "o", "k", "/",
      "y", "o", "o", "k", "a", "s", "s", "a">>

\* variant: the base URL is used as given, without rstrip('/')
yookassa_full_webhook_url_no_rstrip(obj) ==
    IF obj.YOOKASSA_WEBHOOK_BASE_URL # None
       /\ obj.YOOKASSA_WEBHOOK_BASE_URL[1] # <<>>
    THEN [value |-> Some(obj.YOOKASSA_WEBHOOK_BASE_URL[1] \o yookassa_webhook_path),
          raised |-> "none", logged |-> <<>>]
    ELSE [value |-> None, raised |-> "none", logged |-> <<>>]

yookassa_full_webhook_url(obj) ==
    IF obj.YOOKASSA_WEBHOOK_BASE_URL # None
       /\ obj.YOOKASSA_WEBHOOK_BASE_URL[1] # <<>>
    THEN [value |-> Some(RStripChars(obj.YOOKASSA_WEBHOOK_BASE_URL[1], {"/"})
                         \o yookassa_webhook_path),
          raised |-> "none", logged |-> <<>>]
    ELSE [value |-> None, raised |-> "none", logged |-> <<>>]

\* a dict is a function; d[k] = v
EmptyDict == [k \in {} |-> 0]
Put(d, k, v) == [x \in (DOMAIN d) \cup {k} |-> IF x = k THEN v ELSE d[x]]

\* float(p / 100.0), held as units + hundredths / 100
Hundredth(p) == [units |-> p \div 100, hundredths |-> p % 100]

\* variant: the 1-month tier is tested for truth (`if self.PRICE_1_MONTH:`)
\* instead of `is not None`, which loses a price of 0
subscription_options_truthy(obj) ==
    LET o0 == EmptyDict
        o1 == IF obj.PRICE_1_MONTH # None /\ obj.PRICE_1_MONTH[1] # 0
              THEN Put(o0, 1, Hundredth(obj.PRICE_1_MONTH[1])) ELSE o0
        o2 == IF obj.PRICE_3_MONTHS # None
              THEN Put(o1, 3, Hundredth(obj.PRICE_3_MONTHS[1])) ELSE o1
        o3 == IF obj.PRICE_6_MONTHS # None
              THEN Put(o2, 6, Hundredth(obj.PRICE_6_MONTHS[1])) ELSE o2
        o4 == IF obj.PRICE_12_MONTHS # None
              THEN Put(o3, 12, Hundredth(obj.PRICE_12_MONTHS[1])) ELSE o3
    IN  [value |-> o4, raised |-> "none", logged |-> <<>>]

subscription_options(obj) ==
    LET o0 == EmptyDict
        o1 == IF obj.PRICE_1_MONTH # None
              THEN Put(o0, 1, Hundredth(obj.PRICE_1_MONTH[1])) ELSE o0
        o2 == IF obj.PRICE_3_MONTHS # None
              THEN Put(o1, 3, Hundredth(obj.PRICE_3_MONTHS[1])) ELSE o1
        o3 == IF obj.PRICE_6_MONTHS # None
              THEN Put(o2, 6, Hundredth(obj.PRICE_6_MONTHS[1])) ELSE o2
        o4 == IF obj.PRICE_12_MONTHS # None
              THEN Put(o3, 12, Hundredth(obj.PRICE_12_MONTHS[1])) ELSE o3
    IN  [value |-> o4, raised |-> "none", logged |-> <<>>]

referral_bonus_inviter(obj) ==
    LET b0 == EmptyDict
        b1 == IF obj.REFERRAL_BONUS_DAYS_INVITER_1_MONTH # None
              THEN Put(b0, 1, obj.REFERRAL_BONUS_DAYS_INVITER_1_MONTH[1]) ELSE b0
        b2 == IF obj.REFERRAL_BONUS_DAYS_INVITER_3_MONTHS # None
              THEN Put(b1, 3, obj.REFERRAL_BONUS_DAYS_INVITER_3_MONTHS[1]) ELSE b1
        b3 == IF obj.REFERRAL_BONUS_DAYS_INVITER_6_MONTHS # None
              THEN Put(b2, 6, obj.REFERRAL_BONUS_DAYS_INVITER_6_MONTHS[1]) ELSE b2
        b4 == IF obj.REFERRAL_BONUS_DAYS_INVITER_12_MONTHS # None
              THEN Put(b3, 12, obj.REFERRAL_BONUS_DAYS_INVITER_12_MONTHS[1]) ELSE b3
    IN  [value |-> b4, raised |-> "none", logged |-> <<>>]

referral_bonus_referee(obj) ==
    LET b0 == EmptyDict
        b1 == IF obj.REFERRAL_BONUS_DAYS_REFEREE_1_MONTH # None
              THEN Put(b0, 1, obj.REFERRAL_BONUS_DAYS_REFEREE_1_MONTH[1]) ELSE b0
        b2 == IF obj.REFERRAL_BONUS_DAYS_REFEREE_3_MONTHS # None
              THEN Put(b1, 3, obj.REFERRAL_BONUS_DAYS_REFEREE_3_MONTHS[1]) ELSE b1
        b3 == IF obj.REFERRAL_BONUS_DAYS_REFEREE_6_MONTHS # None
              THEN Put(b2, 6, obj.REFERRAL_BONUS_DAYS_REFEREE_6_MONTHS[1]) ELSE b2
        b4 == IF obj.REFERRAL_BONUS_DAYS_REFEREE_12_MONTHS # None
              THEN Put(b3, 12, obj.REFERRAL_BONUS_DAYS_REFEREE_12_MONTHS[1]) ELSE b3
    IN  [value |-> b4, raised |-> "none", logged |-> <<>>]

----------------------------------------------------------------------------
(* Settings(): binding the environment to the typed fields and validating  *)

\* coercion of a raw environment string to int
CoerceInt(raw) ==
    IF raw # <<>> /\ \A i \in 1..Len(raw) : raw[i] \in DecimalDigits
    THEN Some(DecimalValue(raw, 0))
    ELSE None

\* variant: BOT_TOKEN declared with a default, so its absence is no error
ValidationErrors_token_optional(e) ==
    IF e.POSTGRES_PORT # None /\ CoerceInt(e.POSTGRES_PORT[1]) = None
    THEN {"POSTGRES_PORT: Input should be a valid integer"} ELSE {}

\* BOT_TOKEN has no default; POSTGRES_PORT must coerce to int when given
ValidationErrors(e) ==
    (IF e.BOT_TOKEN = None THEN {"BOT_TOKEN: Field required"} ELSE {})
    \cup
    (IF e.POSTGRES_PORT # None /\ CoerceInt(e.POSTGRES_PORT[1]) = None
     THEN {"POSTGRES_PORT: Input should be a valid integer"} ELSE {})

\* the field values of the object; a field that could not be given a value
\* (which validation reports) is None here
FieldsOf(e) ==
    [BOT_TOKEN |-> e.BOT_TOKEN,
     POSTGRES_PORT |-> IF e.POSTGRES_PORT = None THEN Some(5432)
                       ELSE CoerceInt(e.POSTGRES_PORT[1]),
     ADMIN_IDS_STR |-> IF e.ADMIN_IDS = None THEN <<>> ELSE e.ADMIN_IDS[1],
     PANEL_API_URL |-> e.PANEL_API_URL,
     YOOKASSA_SHOP_ID |-> e.YOOKASSA_SHOP_ID,
     YOOKASSA_SECRET_KEY |-> e.YOOKASSA_SECRET_KEY]

\* Settings(): the fields, or pydantic's ValidationError listing every error
Settings(e) ==
    IF ValidationErrors(e) = {}
    THEN [ok |-> TRUE, fields |-> FieldsOf(e), errors |-> {}]
    ELSE [ok |-> FALSE, fields |-> FieldsOf(e), errors |-> ValidationErrors(e)]

----------------------------------------------------------------------------
(* get_settings(): the conditions of its three warnings *)

WarnsAdmin(fields) == ADMIN_IDS(fields).value = <<>>
WarnsPanel(fields) == FalsyStr(fields.PANEL_API_URL)
\* variant: `and` in place of `or`
WarnsYookassa_and(fields) ==
    FalsyStr(fields.YOOKASSA_SHOP_ID) /\ FalsyStr(fields.YOOKASSA_SECRET_KEY)

WarnsYookassa(fields) ==
    FalsyStr(fields.YOOKASSA_SHOP_ID) \/ FalsyStr(fields.YOOKASSA_SECRET_KEY)

WARN_ADMIN == "warning: ADMIN_IDS not set or contains no valid integer IDs"
WARN_PANEL == "warning: PANEL_API_URL is not set"
WARN_YOOKASSA == "warning: YooKassa credentials are not set"
CRITICAL_VALIDATION == "critical: Pydantic validation error while loading settings"

NoResult == [kind |-> "none", id |-> 0, errors |-> {}]
Instance(i) == [kind |-> "instance", id |-> i, errors |-> {}]
SystemExit(errs) == [kind |-> "SystemExit", id |-> 0, errors |-> errs]

----------------------------------------------------------------------------
(* get_settings(), one action per step at which another thread may run     *)

\* the call begins and tests `_settings_instance is None`
Call(t) ==
    /\ pc[t] = "idle"
    /\ ncalls < MaxCalls
    /\ ncalls' = ncalls + 1
    /\ result' = [result EXCEPT ![t] = NoResult]
    /\ emitted' = [emitted EXCEPT ![t] = <<>>]
    /\ initialised' = [initialised EXCEPT ![t] = FALSE]
    /\ pc' = [pc EXCEPT ![t] = IF settings_instance = None
                               THEN "construct" ELSE "return"]
    /\ afterFailure' = [afterFailure EXCEPT ![t] = failed]
    /\ UNCHANGED <<env, settings_instance, nextId, sourceReads, returned, failed>>
    /\ UNCHANGED derivedVars

\* `_settings_instance = Settings()`, or the except clause when it raises.
\* The object is visible to other threads only once the global is assigned,
\* so construction and assignment are one step.
Construct(t) ==
    /\ pc[t] = "construct"
    /\ sourceReads' = sourceReads + 1
    /\ LET s == Settings(env)
       IN  IF s.ok
           THEN /\ settings_instance' = Some([id |-> nextId + 1, fields |-> s.fields])
                /\ nextId' = nextId + 1
                /\ initialised' = [initialised EXCEPT ![t] = TRUE]
                /\ pc' = [pc EXCEPT ![t] = "warn_admin"]
                /\ UNCHANGED <<result, emitted, failed>>
           ELSE /\ emitted' = [emitted EXCEPT ![t] = Append(@, CRITICAL_VALIDATION)]
                /\ result' = [result EXCEPT ![t] = SystemExit(s.errors)]
                /\ failed' = TRUE
                /\ pc' = [pc EXCEPT ![t] = "idle"]
                /\ UNCHANGED <<settings_instance, nextId, initialised>>
    /\ UNCHANGED <<env, ncalls, returned, afterFailure>>
    /\ UNCHANGED derivedVars

\* `if not _settings_instance.ADMIN_IDS: logging.warning(...)`
CheckAdmin(t) ==
    /\ pc[t] = "warn_admin"
    /\ LET f == settings_instance[1].fields
       IN  emitted' = [emitted EXCEPT ![t] =
                          @ \o ADMIN_IDS(f).logged
                            \o (IF WarnsAdmin(f) THEN <<WARN_ADMIN>> ELSE <<>>)]
    /\ pc' = [pc EXCEPT ![t] = "warn_panel"]
    /\ UNCHANGED <<env, settings_instance, result, initialised, ncalls, nextId,
                   sourceReads, returned, failed, afterFailure>>
    /\ UNCHANGED derivedVars

\* `if not _settings_instance.PANEL_API_URL: logging.warning(...)`
CheckPanel(t) ==
    /\ pc[t] = "warn_panel"
    /\ LET f == settings_instance[1].fields
       IN  emitted' = [emitted EXCEPT ![t] =
                          @ \o (IF WarnsPanel(f) THEN <<WARN_PANEL>> ELSE <<>>)]
    /\ pc' = [pc EXCEPT ![t] = "warn_yookassa"]
    /\ UNCHANGED <<env, settings_instance, result, initialised, ncalls, nextId,
                   sourceReads, returned, failed, afterFailure>>
    /\ UNCHANGED derivedVars

\* `if not ...YOOKASSA_SHOP_ID or not ...YOOKASSA_SECRET_KEY: logging.warning(...)`
CheckYookassa(t) ==
    /\ pc[t] = "warn_yookassa"
    /\ LET f == settings_instance[1].fields
       IN  emitted' = [emitted EXCEPT ![t] =
                          @ \o (IF WarnsYookassa(f) THEN <<WARN_YOOKASSA>> ELSE <<>>)]
    /\ pc' = [pc EXCEPT ![t] = "return"]
    /\ UNCHANGED <<env, settings_instance, result, initialised, ncalls, nextId,
                   sourceReads, returned, failed, afterFailure>>
    /\ UNCHANGED derivedVars

\* `return _settings_instance`
Return(t) ==
    /\ pc[t] = "return"
    /\ result' = [result EXCEPT ![t] = Instance(settings_instance[1].id)]
    /\ returned' = returned \cup {settings_instance[1].id}
    /\ pc' = [pc EXCEPT ![t] = "idle"]
    /\ UNCHANGED <<env, settings_instance, emitted, initialised, ncalls, nextId,
                   sourceReads, failed, afterFailure>>
    /\ UNCHANGED derivedVars

----------------------------------------------------------------------------
(* The environments the process may start in *)

AdminEnvValues ==
    {None, Some(<<"1">>), Some(<<"a">>), Some(<<"1", ",", " ", "2">>),
     Some(<<"1", ",", "sup2">>)}

\* every required field given: the soft-required ones vary
SoftFieldEnvs ==
    [BOT_TOKEN : {Some("123:abc")},
     POSTGRES_PORT : {None},
     ADMIN_IDS : AdminEnvValues,
     PANEL_API_URL : {None, Some(""), Some("http://panel")},
     YOOKASSA_SHOP_ID : {None, Some("shop")},
     YOOKASSA_SECRET_KEY : {None, Some(""), Some("key")}]

\* the required field and a coerced field vary
RequiredFieldEnvs ==
    [BOT_TOKEN : {None, Some("123:abc")},
     POSTGRES_PORT : {None, Some(<<"5", "4", "3", "3">>), Some(<<"a", "b", "c">>)},
     ADMIN_IDS : {Some(<<"1">>)},
     PANEL_API_URL : {Some("http://panel")},
     YOOKASSA_SHOP_ID : {Some("shop")},
     YOOKASSA_SECRET_KEY : {Some("key")}]

Envs == SoftFieldEnvs \cup RequiredFieldEnvs

ExampleEnv ==
    [BOT_TOKEN |-> Some("123:abc"), POSTGRES_PORT |-> None, ADMIN_IDS |-> Some(<<"1">>),
     PANEL_API_URL |-> Some("http://panel"), YOOKASSA_SHOP_ID |-> Some("shop"),
     YOOKASSA_SECRET_KEY |-> Some("key")]

----------------------------------------------------------------------------
(* The Settings objects whose computed properties are read *)

DefaultSelf ==
    [ADMIN_IDS_STR |-> <<>>,
     TRIAL_TRAFFIC_LIMIT_GB |-> Some(Fin(5, 0)),
     YOOKASSA_WEBHOOK_BASE_URL |-> None,
     PRICE_1_MONTH |-> None, PRICE_3_MONTHS |-> None,
     PRICE_6_MONTHS |-> None, PRICE_12_MONTHS |-> None,
     REFERRAL_BONUS_DAYS_INVITER_1_MONTH |-> Some(3),
     REFERRAL_BONUS_DAYS_INVITER_3_MONTHS |-> Some(7),
     REFERRAL_BONUS_DAYS_INVITER_6_MONTHS |-> Some(15),
     REFERRAL_BONUS_DAYS_INVITER_12_MONTHS |-> Some(30),
     REFERRAL_BONUS_DAYS_REFEREE_1_MONTH |-> Some(1),
     REFERRAL_BONUS_DAYS_REFEREE_3_MONTHS |-> Some(3),
     REFERRAL_BONUS_DAYS_REFEREE_6_MONTHS |-> Some(7),
     REFERRAL_BONUS_DAYS_REFEREE_12_MONTHS |-> Some(15)]

StringsOver(chars, n) == UNION {[1..k -> chars] : k \in 0..n}

AdminChars == {"1", "2", ",", " ", "a", "sup2"}
AdminStrings ==
    StringsOver(AdminChars, MaxLen)
    \cup {<<"1", ",", " ", "2", ",", " ", "a", "b", "c", ",", " ", "3">>,
          <<"a", "b", "c">>, <<"0", "0", "7", ",", "4", "2">>}

TrialValues ==
    {None, Some(NaN), Some(PosInf), Some(NegInf)}
    \cup {Some(Fin(n, d)) : n \in (-2)..6, d \in {0, 1, 32}}

UrlChars == {"h", "/"}
BaseUrls ==
    {None}
    \cup {Some(u) : u \in StringsOver(UrlChars, MaxUrlLen)}
    \cup {Some(<<"h", "t", "t", "p", "s", ":", "/", "/", "e", "x", ".", "c", "o", "m", "/">>)}

TierValues == {None, Some(0), Some(49950)}
TierTuples == [1..4 -> TierValues]

SelfInputs ==
    {[DefaultSelf EXCEPT !.ADMIN_IDS_STR = s] : s \in AdminStrings}
    \cup {[DefaultSelf EXCEPT !.TRIAL_TRAFFIC_LIMIT_GB = v] : v \in TrialValues}
    \cup {[DefaultSelf EXCEPT !.YOOKASSA_WEBHOOK_BASE_URL = u] : u \in BaseUrls}
    \cup {[DefaultSelf EXCEPT !.PRICE_1_MONTH = p[1], !.PRICE_3_MONTHS = p[2],
                              !.PRICE_6_MONTHS = p[3], !.PRICE_12_MONTHS = p[4]] :
             p \in TierTuples}
    \cup {[DefaultSelf EXCEPT !.REFERRAL_BONUS_DAYS_INVITER_1_MONTH = p[1],
                              !.REFERRAL_BONUS_DAYS_INVITER_3_MONTHS = p[2],
                              !.REFERRAL_BONUS_DAYS_INVITER_6_MONTHS = p[3],
                              !.REFERRAL_BONUS_DAYS_INVITER_12_MONTHS = p[4]] :
             p \in TierTuples}
    \cup {[DefaultSelf EXCEPT !.REFERRAL_BONUS_DAYS_REFEREE_1_MONTH = p[1],
                              !.REFERRAL_BONUS_DAYS_REFEREE_3_MONTHS = p[2],
                              !.REFERRAL_BONUS_DAYS_REFEREE_6_MONTHS = p[3],
                              !.REFERRAL_BONUS_DAYS_REFEREE_12_MONTHS = p[4]] :
             p \in TierTuples}

NoAccess == [prop |-> "none", value |-> <<>>, raised |-> "none", logged |-> <<>>]
Access(name, r) ==
    [prop |-> name, value |-> r.value, raised |-> r.raised, logged |-> r.logged]

\* one action per computed property read on the object
Get_ADMIN_IDS ==
    /\ ret' = Access("ADMIN_IDS", ADMIN_IDS(self))
    /\ UNCHANGED self /\ UNCHANGED registryVars

Get_PRIMARY_ADMIN_ID ==
    /\ ret' = Access("PRIMARY_ADMIN_ID", PRIMARY_ADMIN_ID(self))
    /\ UNCHANGED self /\ UNCHANGED registryVars

Get_trial_traffic_limit_bytes ==
    /\ ret' = Access("trial_traffic_limit_bytes", trial_traffic_limit_bytes(self))
    /\ UNCHANGED self /\ UNCHANGED registryVars

Get_yookassa_full_webhook_url ==
    /\ ret' = Access("yookassa_full_webhook_url", yookassa_full_webhook_url(self))
    /\ UNCHANGED self /\ UNCHANGED registryVars

Get_subscription_options ==
    /\ ret' = Access("subscription_options", subscription_options(self))
    /\ UNCHANGED self /\ UNCHANGED registryVars

Get_referral_bonus_inviter ==
    /\ ret' = Access("referral_bonus_inviter", referral_bonus_inviter(self))
    /\ UNCHANGED self /\ UNCHANGED registryVars

Get_referral_bonus_referee ==
    /\ ret' = Access("referral_bonus_referee", referral_bonus_referee(self))
    /\ UNCHANGED self /\ UNCHANGED registryVars

----------------------------------------------------------------------------
(* Specifications *)

RegistryInit(e) ==
    /\ env = e
    /\ settings_instance = None
    /\ pc = [t \in Threads |-> "idle"]
    /\ result = [t \in Threads |-> NoResult]
    /\ emitted = [t \in Threads |-> <<>>]
    /\ initialised = [t \in Threads |-> FALSE]
    /\ ncalls = 0
    /\ nextId = 0
    /\ sourceReads = 0
    /\ returned = {}
    /\ failed = FALSE
    /\ afterFailure = [t \in Threads |-> FALSE]

\* the process after import: no instance yet, threads about to call get_settings()
Init ==
    /\ \E e \in Envs : RegistryInit(e)
    /\ self = DefaultSelf
    /\ ret = NoAccess

Next ==
    \E t \in Threads :
        \/ Call(t)
        \/ Construct(t)
        \/ CheckAdmin(t)
        \/ CheckPanel(t)
        \/ CheckYookassa(t)
        \/ Return(t)

Spec == Init /\ [][Next]_vars

\* a Settings object built directly from field values; its properties are read
DerivedInit ==
    /\ RegistryInit(ExampleEnv)
    /\ self \in SelfInputs
    /\ ret = NoAccess

DerivedNext ==
    \/ Get_ADMIN_IDS
    \/ Get_PRIMARY_ADMIN_ID
    \/ Get_trial_traffic_limit_bytes
    \/ Get_yookassa_full_webhook_url
    \/ Get_subscription_options
    \/ Get_referral_bonus_inviter
    \/ Get_referral_bonus_referee

SpecDerived == DerivedInit /\ [][DerivedNext]_vars

----------------------------------------------------------------------------
(* Properties of get_settings() *)

\* C1: concurrent first calls of get_settings() execute one initialization:
\* at most one Settings object is ever constructed, and every caller is
\* handed the same instance.
C1_SingleInitialization ==
    /\ nextId <= 1
    /\ Cardinality(returned) <= 1

\* C2: once a call has returned an instance, the stored instance is never
\* replaced, Settings is not constructed again (the sources are not read
\* again), and every later call returns that same instance.
C2_ReturnedInstanceIsKept ==
    [][returned # {} =>
          /\ settings_instance' = settings_instance
          /\ sourceReads' = sourceReads
          /\ returned' = returned]_vars

\* what the environment must satisfy for validation to succeed
EnvIsValid(e) ==
    /\ e.BOT_TOKEN # None
    /\ e.POSTGRES_PORT # None =>
          /\ e.POSTGRES_PORT[1] # <<>>
          /\ \A i \in 1..Len(e.POSTGRES_PORT[1]) : e.POSTGRES_PORT[1][i] \in DecimalDigits

\* C3: when validation fails, get_settings() stores no instance, hands no
\* value to the caller and ends in SystemExit carrying the listing of the
\* errors; an instance that is stored or returned always has every required
\* field and every coerced field valid.
C3_ValidationFailureStoresNothing ==
    /\ settings_instance # None =>
          /\ settings_instance[1].fields.BOT_TOKEN # None
          /\ settings_instance[1].fields.POSTGRES_PORT # None
    /\ ~EnvIsValid(env) =>
          /\ settings_instance = None
          /\ returned = {}
          /\ \A t \in Threads :
                /\ pc[t] \in {"idle", "construct"}
                /\ result[t].kind \in {"none", "SystemExit"}
                /\ result[t].kind = "SystemExit" =>
                      /\ result[t].errors # {}
                      /\ ("BOT_TOKEN: Field required" \in result[t].errors)
                            <=> (env.BOT_TOKEN = None)
                      /\ ("POSTGRES_PORT: Input should be a valid integer"
                               \in result[t].errors)
                            <=> ~EnvIsValid([env EXCEPT !.BOT_TOKEN = Some("123:abc")])
                      /\ CRITICAL_VALIDATION = emitted[t][Len(emitted[t])]

C3_Witness ==
    \E t \in Threads :
        /\ result[t].kind = "SystemExit"
        /\ pc[t] = "idle"
        /\ settings_instance = None

\* C4: initialization is not retried: a call that begins after a call has
\* failed validation does not construct Settings, so it does not read the
\* sources again.
C4_NoInitializationAfterFailure ==
    [][\A t \in Threads :
          (afterFailure[t] /\ pc[t] = "construct") => sourceReads' = sourceReads]_vars

Count(seq, x) == Cardinality({i \in 1..Len(seq) : seq[i] = x})

Unset(opt) == opt = None \/ opt = Some("")

----------------------------------------------------------------------------
(* Properties of the computed fields *)

PurelyNumeric(e) == e # <<>> /\ \A i \in 1..Len(e) : e[i] \in DecimalDigits

\* the comma-separated elements of s, each trimmed
TrimmedElements(s) ==
    LET elems == Split(s, ",")
    IN  [i \in 1..Len(elems) |-> Strip(elems[i])]

\* the integer values of the purely numeric elements of s, in order
NumericElementValues(s) ==
    LET kept == SelectSeq(TrimmedElements(s), PurelyNumeric)
    IN  [i \in 1..Len(kept) |-> DecimalValue(kept[i], 0)]

\* C6: ADMIN_IDS is, for every ADMIN_IDS_STR, the list in order of the
\* integer values of exactly the trimmed comma-separated elements that are
\* purely numeric; other elements are dropped without affecting the rest.
C6_AdminIdsAreTheNumericElements ==
    ret.prop = "ADMIN_IDS" =>
        /\ ret.raised = "none"
        /\ ret.value = NumericElementValues(self.ADMIN_IDS_STR)

Tiers == {1, 3, 6, 12}

PriceField(obj, t) ==
    CASE t = 1 -> obj.PRICE_1_MONTH [] t = 3 -> obj.PRICE_3_MONTHS
      [] t = 6 -> obj.PRICE_6_MONTHS [] t = 12 -> obj.PRICE_12_MONTHS

InviterField(obj, t) ==
    CASE t = 1 -> obj.REFERRAL_BONUS_DAYS_INVITER_1_MONTH
      [] t = 3 -> obj.REFERRAL_BONUS_DAYS_INVITER_3_MONTHS
      [] t = 6 -> obj.REFERRAL_BONUS_DAYS_INVITER_6_MONTHS
      [] t = 12 -> obj.REFERRAL_BONUS_DAYS_INVITER_12_MONTHS

RefereeField(obj, t) ==
    CASE t = 1 -> obj.REFERRAL_BONUS_DAYS_REFEREE_1_MONTH
      [] t = 3 -> obj.REFERRAL_BONUS_DAYS_REFEREE_3_MONTHS
      [] t = 6 -> obj.REFERRAL_BONUS_DAYS_REFEREE_6_MONTHS
      [] t = 12 -> obj.REFERRAL_BONUS_DAYS_REFEREE_12_MONTHS

\* C7: each tiered table has as keys exactly the tiers of {1, 3, 6, 12}
\* whose own field is not None (0 included), and the value of a tier comes
\* from that tier's field alone.
C7_TablesHoldExactlyThePresentTiers ==
    /\ ret.prop = "subscription_options" =>
          /\ DOMAIN ret.value = {t \in Tiers : PriceField(self, t) # None}
          /\ \A t \in DOMAIN ret.value :
                /\ ret.value[t].hundredths \in 0..99
                /\ 100 * ret.value[t].units + ret.value[t].hundredths
                      = PriceField(self, t)[1]
    /\ ret.prop = "referral_bonus_inviter" =>
          /\ DOMAIN ret.value = {t \in Tiers : InviterField(self, t) # None}
          /\ \A t \in DOMAIN ret.value : ret.value[t] = InviterField(self, t)[1]
    /\ ret.prop = "referral_bonus_referee" =>
          /\ DOMAIN ret.value = {t \in Tiers : RefereeField(self, t) # None}
          /\ \A t \in DOMAIN ret.value : ret.value[t] = RefereeField(self, t)[1]

C7_Witness ==
    /\ ret.prop = "subscription_options"
    /\ self.PRICE_1_MONTH = Some(0)
    /\ self.PRICE_3_MONTHS = None
    /\ self.PRICE_6_MONTHS = None
    /\ self.PRICE_12_MONTHS # None
    /\ DOMAIN ret.value = {1, 12}

\* C8: for every TRIAL_TRAFFIC_LIMIT_GB, trial_traffic_limit_bytes is an
\* integer that is never negative: 0 when the value is absent or <= 0, and
\* otherwise the value times 1024^3, truncated (whole gigabytes n give
\* n * 1024^3, so 5.0 gives 5 * 1024^3 = 5368709120).
C8_TrialBytesNeverNegative ==
    ret.prop = "trial_traffic_limit_bytes" =>
        LET gb == self.TRIAL_TRAFFIC_LIMIT_GB
        IN  /\ ret.raised = "none"
            /\ ret.value.hi >= 0
            /\ ret.value.lo >= 0
            /\ ret.value.lo < GiB
            /\ (gb = None \/ gb[1].kind = "-inf"
                  \/ (gb[1].kind = "fin" /\ gb[1].num <= 0))
                  => ret.value = BigInt(0, 0)
            /\ (gb # None /\ gb[1].kind = "fin" /\ gb[1].num > 0 /\ gb[1].dexp = 0)
                  => ret.value = BigInt(gb[1].num, 0)

\* C9: yookassa_full_webhook_url is None when the base URL is None or
\* empty; otherwise it is the base without its trailing '/' characters,
\* followed by "/webhook/yookassa", so no "//" arises where the two meet.
C9_WebhookUrlJoinsWithoutDoubleSlash ==
    ret.prop = "yookassa_full_webhook_url" =>
        LET base == self.YOOKASSA_WEBHOOK_BASE_URL
        IN  IF base = None \/ base = Some(<<>>)
            THEN ret.value = None
            ELSE /\ ret.value # None
                 /\ \E k \in 0..Len(base[1]) :
                       /\ \A i \in (k + 1)..Len(base[1]) : base[1][i] = "/"
                       /\ k > 0 => base[1][k] # "/"
                       /\ ret.value[1] = SubSeq(base[1], 1, k) \o yookassa_webhook_path
                       /\ k > 0 => ret.value[1][k] # "/"
                       /\ ret.value[1][k + 1] = "/"
                       /\ ret.value[1][k + 2] # "/"

C9_Witness ==
    /\ ret.prop = "yookassa_full_webhook_url"
    /\ self.YOOKASSA_WEBHOOK_BASE_URL # None
    /\ Len(self.YOOKASSA_WEBHOOK_BASE_URL[1]) >= 2
    /\ self.YOOKASSA_WEBHOOK_BASE_URL[1][Len(self.YOOKASSA_WEBHOOK_BASE_URL[1])] = "/"
    /\ self.YOOKASSA_WEBHOOK_BASE_URL[1][1] # "/"
    /\ ret.value # None

\* C10: whenever the computation of ADMIN_IDS drops an element of
\* ADMIN_IDS_STR because it is not purely numeric, it logs a diagnostic.
C10_DroppedElementIsLogged ==
    (/\ ret.prop = "ADMIN_IDS"
     /\ \E i \in 1..Len(TrimmedElements(self.ADMIN_IDS_STR)) :
           /\ TrimmedElements(self.ADMIN_IDS_STR)[i] # <<>>
           /\ ~PurelyNumeric(TrimmedElements(self.ADMIN_IDS_STR)[i]))
    => ret.logged # <<>>

====
